---- MODULE Spec2Model ----
(***************************************************************************)
(* Model of tutorials/gmm_postprocessing_and_hard_labeling.ipynb: the      *)
(* notebook cells that turn signature scores into probability columns,     *)
(* hard labels and weighted F1 scores.                                     *)
(*                                                                         *)
(* Conventions                                                             *)
(*  - A column name is the sequence of its '_'-separated tokens            *)
(*    ('Seurat_AG_B' is <<"Seurat","AG","B">>), so that rsplit, the        *)
(*    f-strings and '_'.join are computed as the notebook computes them.   *)
(*  - adata.obs is a function from column names to columns, a column is a  *)
(*    function from the entity index 1..n to a value.                      *)
(*  - Scores and probabilities are integers (fixed point).  Histogram bin  *)
(*    edges are kept in units of 1/Bins of a score unit, which makes the   *)
(*    comparison score < edge exact.  Floating point rounding is not       *)
(*    modelled.                                                            *)
(***************************************************************************)
EXTENDS Integers, Sequences, FiniteSets, TLC

VARIABLES
    obs,                  \* adata.obs: column name -> column
    scoring_names_3_sigs, \* score column names, grouped by method
    fits,                 \* outcome of each GMM fit, keyed by the fitted columns
    selected_thresh,      \* the hand-selected bin indices, a dict in insertion order
    scoring_names_3_gmm,  \* helper list of matched probability columns, scenario 1
    scoring_names_2_gmm,  \* helper list of matched probability columns, scenario 2
    assignments,          \* result of the last assign_clusters_to_signatures call
    all_pred_cols_1,      \* label columns of scenario 1
    all_pred_cols_2,      \* label columns of scenario 2
    figure,               \* what plot_score_distributions drew last
    res,                  \* rows collected by the evaluation loop
    pc,                   \* the cell being executed
    i,                    \* the loop index of that cell
    err                   \* the exception that stopped the run, or "none"

vars == <<obs, scoring_names_3_sigs, fits, selected_thresh, scoring_names_3_gmm,
          scoring_names_2_gmm, assignments, all_pred_cols_1, all_pred_cols_2,
          figure, res, pc, i, err>>

(***************************************************************************)
(* Bounds of the model                                                     *)
(***************************************************************************)
NumEntities == 2      \* rows of adata.obs in the labeling pipeline
MaxScore == 1         \* scores range over 0..MaxScore
ProbTotal == 2        \* a posterior vector sums to ProbTotal (fixed point 1.0)
HistWindow == 5       \* the low scores 0..HistWindow-1 that a plotted column may hold
MaxCount == 2         \* how often a plotted column holds each of these scores

(***************************************************************************)
(* Program constants                                                       *)
(***************************************************************************)
NComponents == 3      \* GMMPostprocessor(n_components=3)
Bins == 100           \* np.histogram(..., bins = 100, ...)
Order == 3            \* argrelmin(..., order=3)
RestLabel == <<"NK">> \* the label written for the remaining class

Signatures == <<"B", "Mono", "NK">>

(***************************************************************************)
(* Small helpers                                                           *)
(***************************************************************************)
Min2(a, b) == IF a <= b THEN a ELSE b
Max2(a, b) == IF a >= b THEN a ELSE b
SetMax(S) == CHOOSE x \in S : \A y \in S : y <= x
SetMin(S) == CHOOSE x \in S : \A y \in S : x <= y
Range(s) == {s[k] : k \in DOMAIN s}

\* Python slice s[a:b] of a list (0-based, end exclusive, clipped)
Slice(s, a, b) == SubSeq(s, a + 1, Min2(b, Len(s)))

\* Python range(0, n, step) as the sequence of its values
RangeStep(n, step) == [k \in 1..((n + step - 1) \div step) |-> (k - 1) * step]

\* str.rsplit('_', k): at most k splits, taken from the right
rsplit(name, k) ==
    IF Len(name) > k
    THEN <<SubSeq(name, 1, Len(name) - k)>> \o
         [j \in 1..k |-> <<name[Len(name) - k + j]>>]
    ELSE [j \in 1..Len(name) |-> <<name[j]>>]

\* 'NK' in x, for the tokens that occur in column names
ContainsNK(name) == \E k \in DOMAIN name : name[k] = "NK"

\* [x for x in scoring_names_3_sigs if 'NK' not in x]
scoring_names_2_sigs == SelectSeq(scoring_names_3_sigs, LAMBDA x : ~ContainsNK(x))

\* idxmax taking the last column that holds the row maximum
idxmax_last(table, cols, e) ==
    LET mx == SetMax({table[cols[k]][e] : k \in DOMAIN cols})
        last == SetMax({k \in DOMAIN cols : table[cols[k]][e] = mx})
    IN cols[last]

\* table[cols].idxmax(axis="columns") for one row: the first column of cols
\* that holds the row maximum
idxmax(table, cols, e) ==
    LET mx == SetMax({table[cols[k]][e] : k \in DOMAIN cols})
        first == SetMin({k \in DOMAIN cols : table[cols[k]][e] = mx})
    IN cols[first]

Entities == DOMAIN obs[scoring_names_3_sigs[1]]

(***************************************************************************)
(* GMMPostprocessor.  The class lives in signaturescoring/scoring_methods/ *)
(* gmm_postprocessing.py, which the notebook only calls; its two methods   *)
(* are modelled from the design description of the calibrator (4.1) and    *)
(* of the component-signature matcher (4.2).                               *)
(***************************************************************************)
Components == 1..NComponents
CompToken == <<"0", "1", "2", "3">>

\* the names under which fit_and_predict stores the posterior columns
store_names_proba == [c \in Components |-> <<"gmm", CompToken[c], "proba">>]

\* fit_and_predict: writes one posterior column per component; the fitted
\* posteriors are the outcome recorded in fits for these columns
fit_and_predict(table, cols) ==
    [n \in DOMAIN table \cup Range(store_names_proba) |->
        IF \E c \in Components : store_names_proba[c] = n
        THEN fits[cols][CHOOSE c \in Components : store_names_proba[c] = n]
        ELSE table[n]]

RECURSIVE SumTo(_, _)
SumTo(f, n) == IF n = 0 THEN 0 ELSE f[n] + SumTo(f, n - 1)

\* Pearson correlation of two columns as the fraction num/den of its signed
\* square (order preserving); a constant column gives correlation 0
Corr(x, y) ==
    LET n == Cardinality(DOMAIN x)
        sx == SumTo(x, n)
        sy == SumTo(y, n)
        cov == n * SumTo([e \in DOMAIN x |-> x[e] * y[e]], n) - sx * sy
        vx == n * SumTo([e \in DOMAIN x |-> x[e] * x[e]], n) - sx * sx
        vy == n * SumTo([e \in DOMAIN x |-> y[e] * y[e]], n) - sy * sy
    IN IF vx * vy = 0 THEN [num |-> 0, den |-> 1]
       ELSE [num |-> (IF cov < 0 THEN -1 ELSE 1) * cov * cov, den |-> vx * vy]

CorrLess(a, b) == a.num * b.den < b.num * a.den

\* the cross-correlation matrix of score columns and posterior columns
CrossCorr(table, score_names, proba_names) ==
    [p \in (DOMAIN score_names) \X (DOMAIN proba_names) |->
        Corr(table[score_names[p[1]]], table[proba_names[p[2]]])]

\* the best remaining component of the first-listed remaining signature
BestPairBySignature(corr, sigsLeft, compsLeft) ==
    CHOOSE p \in sigsLeft \X compsLeft :
        /\ p[1] = SetMin(sigsLeft)
        /\ \A c \in compsLeft :
              /\ ~CorrLess(corr[p], corr[<<p[1], c>>])
              /\ CorrLess(corr[<<p[1], c>>], corr[p]) \/ p[2] <= c

\* the strongest remaining (signature position, component) pair of the
\* cross-correlation matrix corr; exact ties go to the lowest component
\* index, then to the first-listed signature
BestPair(corr, sigsLeft, compsLeft) ==
    CHOOSE p \in sigsLeft \X compsLeft :
        /\ \A q \in sigsLeft \X compsLeft : ~CorrLess(corr[p], corr[q])
        /\ \A q \in sigsLeft \X compsLeft :
              (\A q2 \in sigsLeft \X compsLeft : ~CorrLess(corr[q], corr[q2]))
                  => \/ p[2] < q[2]
                     \/ (p[2] = q[2] /\ p[1] <= q[1])

\* matching that leaves a committed component available to later signatures
RECURSIVE GreedyMatchKeep(_, _, _, _)
GreedyMatchKeep(corr, sigsLeft, compsLeft, acc) ==
    IF sigsLeft = {} \/ compsLeft = {}
    THEN [matched |-> acc, compsLeft |-> compsLeft \ {p[2] : p \in acc}]
    ELSE CHOOSE g \in {GreedyMatchKeep(corr, sigsLeft \ {p[1]}, compsLeft, acc \cup {p}) :
                          p \in {BestPair(corr, sigsLeft, compsLeft)}} : TRUE

\* greedy matching: commit the strongest pair, remove its signature and its
\* component, repeat until one side is exhausted
RECURSIVE GreedyMatch(_, _, _, _)
GreedyMatch(corr, sigsLeft, compsLeft, acc) ==
    IF sigsLeft = {} \/ compsLeft = {}
    THEN [matched |-> acc, compsLeft |-> compsLeft]
    ELSE CHOOSE g \in {GreedyMatch(corr, sigsLeft \ {p[1]}, compsLeft \ {p[2]},
                                   acc \cup {p}) :
                          p \in {BestPair(corr, sigsLeft, compsLeft)}} : TRUE

\* the dict built from a matching: signature column -> posterior column in
\* the order of score_names, followed by 'rest' -> the set of unmatched
\* posterior columns when there are more components than signatures
AssignmentDict(g, score_names, proba_names) ==
    LET named == [k \in DOMAIN score_names |->
                     <<score_names[k],
                       proba_names[CHOOSE c \in DOMAIN proba_names : <<k, c>> \in g.matched]>>]
    IN IF Len(proba_names) > Len(score_names)
       THEN Append(named, << <<"rest">>, {proba_names[c] : c \in g.compsLeft} >>)
       ELSE named

\* assign_clusters_to_signatures (the correlation matrix is tabulated once,
\* c = c, before the matching reads it)
assign_clusters_to_signatures(table, score_names, proba_names) ==
    CHOOSE d \in {AssignmentDict(g, score_names, proba_names) :
                    g \in {GreedyMatch(corr, DOMAIN score_names, DOMAIN proba_names, {}) :
                             corr \in {c \in {CrossCorr(table, score_names, proba_names)} :
                                          c = c}}} : TRUE

\* dict item access assignments[key]
DictGet(d, key) == d[CHOOSE k \in DOMAIN d : d[k][1] = key][2]

\* table with the columns of vals stored under the names of keys
WithColumns(table, keys, vals) ==
    [n \in DOMAIN table \cup Range(keys) |->
        IF n \in Range(keys)
        THEN vals[SetMax({k \in DOMAIN keys : keys[k] = n})]
        ELSE table[n]]

\* f-string / concatenation suffixes
gmm_3sigs(key) == key \o <<"gmm", "3sigs">>
gmm_2sigs(key) == key \o <<"gmm", "2sigs">>

(***************************************************************************)
(* Cell "GMM postprocessing, scenario 1": one loop iteration per step      *)
(***************************************************************************)
GmmScenario1 ==
    /\ pc = "gmm3"
    /\ LET rng == RangeStep(Len(scoring_names_3_sigs), 3)
       IN IF i > Len(rng)
          THEN /\ pc' = "gmm2"
               /\ i' = 1
               /\ UNCHANGED <<obs, scoring_names_3_gmm, assignments>>
          ELSE \E cols \in {Slice(scoring_names_3_sigs, rng[i], rng[i] + 3)} :
               \E fitted \in {fit_and_predict(obs, cols)} :
               \E asg \in {assign_clusters_to_signatures(fitted, cols, store_names_proba)} :
               LET keys == [k \in DOMAIN asg |-> gmm_3sigs(asg[k][1])]
                   vals == [k \in DOMAIN asg |-> fitted[asg[k][2]]]
               IN /\ assignments' = asg
                  /\ obs' = WithColumns(fitted, keys, vals)
                  /\ scoring_names_3_gmm' = scoring_names_3_gmm \o keys
                  /\ i' = i + 1
                  /\ pc' = pc
    /\ UNCHANGED <<scoring_names_3_sigs, fits, selected_thresh, scoring_names_2_gmm,
                   all_pred_cols_1, all_pred_cols_2, figure, res, err>>

(***************************************************************************)
(* Cell "GMM postprocessing, scenario 2"                                   *)
(***************************************************************************)
GmmScenario2 ==
    /\ pc = "gmm2"
    /\ LET rng == RangeStep(Len(scoring_names_2_sigs), 2)
       IN IF i > Len(rng)
          THEN /\ pc' = "drop"
               /\ i' = 1
               /\ UNCHANGED <<obs, scoring_names_2_gmm, assignments>>
          ELSE \E cols \in {Slice(scoring_names_2_sigs, rng[i], rng[i] + 2)} :
               \E fitted \in {fit_and_predict(obs, cols)} :
               \E asg \in {assign_clusters_to_signatures(fitted, cols, store_names_proba)} :
               LET items == SelectSeq(asg, LAMBDA kv : kv[1] # <<"rest">>)
                   first == scoring_names_2_sigs[rng[i] + 1]
                   curr_name == SubSeq(first, 1, Len(first) - 1)
                   rest_col == CHOOSE n \in DictGet(asg, <<"rest">>) : TRUE
                   keys == [k \in DOMAIN items |-> gmm_2sigs(items[k][1])]
                               \o <<curr_name \o <<"NK", "gmm", "2sigs">> >>
                   vals == [k \in DOMAIN items |-> fitted[items[k][2]]]
                               \o <<fitted[rest_col]>>
               IN /\ assignments' = asg
                  /\ obs' = WithColumns(fitted, keys, vals)
                  /\ scoring_names_2_gmm' = scoring_names_2_gmm \o keys
                  /\ i' = i + 1
                  /\ pc' = pc
    /\ UNCHANGED <<scoring_names_3_sigs, fits, selected_thresh, scoring_names_3_gmm,
                   all_pred_cols_1, all_pred_cols_2, figure, res, err>>

(***************************************************************************)
(* Cell "remove all unused obs columns"                                    *)
(***************************************************************************)
HasGmm(name) == \E k \in DOMAIN name : name[k] = "gmm"
HasSigs(name) == \E k \in DOMAIN name : name[k] \in {"3sigs", "2sigs"}

DropUnused ==
    /\ pc = "drop"
    /\ obs' = [n \in {m \in DOMAIN obs : ~(HasGmm(m) /\ ~HasSigs(m))} |-> obs[n]]
    /\ pc' = "hl_scores_1"
    /\ i' = 1
    /\ UNCHANGED <<scoring_names_3_sigs, fits, selected_thresh, scoring_names_3_gmm,
                   scoring_names_2_gmm, assignments, all_pred_cols_1,
                   all_pred_cols_2, figure, res, err>>

(***************************************************************************)
(* Hard labeling                                                           *)
(***************************************************************************)
scores_HL_3sigs(method) == method \o <<"scores", "HL", "3sigs">>
probabilities_HL_3sigs(method) == method \o <<"probabilities", "HL", "3sigs">>
scores_HL_2sigs(method) == method \o <<"scores", "HL", "2sigs">>
probabilities_HL_2sigs(method) == method \o <<"probabilities", "HL", "2sigs">>

\* df[cols].idxmax(axis="columns").apply(lambda x: x.rsplit('_', k)[1])
ArgmaxLabels(table, cols, k) ==
    [e \in DOMAIN table[cols[1]] |-> rsplit(idxmax(table, cols, e), k)[2]]

\* table with one column added or replaced
WithColumn(table, name, col) ==
    [n \in DOMAIN table \cup {name} |-> IF n = name THEN col ELSE table[n]]

\* Cell "hard labeling on scores, scenario 1"
HardLabelScores1 ==
    /\ pc = "hl_scores_1"
    /\ LET rng == RangeStep(Len(scoring_names_3_sigs), 3)
       IN IF i > Len(rng)
          THEN /\ pc' = "hl_proba_1"
               /\ i' = 1
               /\ UNCHANGED <<obs, all_pred_cols_1>>
          ELSE LET method == rsplit(scoring_names_3_sigs[rng[i] + 1], 1)[1]
                   cols == Slice(scoring_names_3_sigs, rng[i], rng[i] + 3)
                   curr_val == ArgmaxLabels(obs, cols, 1)
               IN /\ obs' = WithColumn(obs, scores_HL_3sigs(method), curr_val)
                  /\ all_pred_cols_1' = Append(all_pred_cols_1, scores_HL_3sigs(method))
                  /\ i' = i + 1
                  /\ pc' = pc
    /\ UNCHANGED <<scoring_names_3_sigs, fits, selected_thresh, scoring_names_3_gmm,
                   scoring_names_2_gmm, assignments, all_pred_cols_2, figure, res, err>>

\* Cell "hard labeling on probabilities, scenario 1"
HardLabelProba1 ==
    /\ pc = "hl_proba_1"
    /\ LET rng == RangeStep(Len(scoring_names_3_gmm), 3)
       IN IF i > Len(rng)
          THEN /\ pc' = "hl_scores_2"
               /\ i' = 1
               /\ UNCHANGED <<obs, all_pred_cols_1>>
          ELSE LET method == rsplit(scoring_names_3_gmm[rng[i] + 1], 3)[1]
                   cols == Slice(scoring_names_3_gmm, rng[i], rng[i] + 3)
                   curr_val == ArgmaxLabels(obs, cols, 3)
               IN /\ obs' = WithColumn(obs, probabilities_HL_3sigs(method), curr_val)
                  /\ all_pred_cols_1' = Append(all_pred_cols_1, probabilities_HL_3sigs(method))
                  /\ i' = i + 1
                  /\ pc' = pc
    /\ UNCHANGED <<scoring_names_3_sigs, fits, selected_thresh, scoring_names_3_gmm,
                   scoring_names_2_gmm, assignments, all_pred_cols_2, figure, res, err>>

(***************************************************************************)
(* Thresholds from the score histograms                                    *)
(***************************************************************************)
ColMin(col) == SetMin(Range(col))
ColMax(col) == SetMax(Range(col))

\* np.histogram(values, bins = 100)[1][k], k in 0..Bins, in units of 1/Bins:
\* Bins+1 equally spaced edges from the minimum to the maximum; a column
\* whose values are all equal gets the range (min - 0.5, max + 0.5)
BinEdge(col, k) ==
    IF ColMin(col) = ColMax(col)
    THEN Bins * ColMin(col) - (Bins \div 2) + k
    ELSE Bins * ColMin(col) + k * (ColMax(col) - ColMin(col))

\* position addressed by the index idx in an array of length n, where a
\* negative index counts from the end; -1 stands for IndexError
PyIndex(n, idx) ==
    IF 0 <= idx /\ idx < n THEN idx
    ELSE IF idx < 0 /\ idx >= -n THEN idx + n
    ELSE -1

\* does get_score_threshs(selected, ...) raise IndexError
ThreshsRaise(selected) ==
    \/ Len(selected) < 2
    \/ PyIndex(Bins + 1, selected[1]) = -1
    \/ PyIndex(Bins + 1, selected[2]) = -1

\* get_score_threshs: [thresh_one, thresh_two]
get_score_threshs(selected, scores_B, scores_Mono) ==
    << BinEdge(scores_B, PyIndex(Bins + 1, selected[1])),
       BinEdge(scores_Mono, PyIndex(Bins + 1, selected[2])) >>

\* a row selected when one of its two scores is below its threshold
BelowEither(B_scores, M_scores, threshs, e) ==
    \/ Bins * B_scores[e] < threshs[1]
    \/ Bins * M_scores[e] < threshs[2]

\* (B_scores<B_thresh)&((M_scores<M_thresh)) for one row
BelowBoth(B_scores, M_scores, threshs, e) ==
    /\ Bins * B_scores[e] < threshs[1]
    /\ Bins * M_scores[e] < threshs[2]

\* the label column of scenario 2 on scores: the argmax label, overwritten
\* with 'NK' in the rows below both thresholds
ScoreLabels2(table, cols, threshs) ==
    [e \in DOMAIN table[cols[1]] |->
        IF BelowBoth(table[cols[1]], table[cols[2]], threshs, e)
        THEN RestLabel
        ELSE ArgmaxLabels(table, cols, 1)[e]]

\* Cell "hard labeling on scores, scenario 2": zip pairs the k-th entry of
\* selected_thresh with the k-th group of two score columns
HardLabelScores2 ==
    /\ pc = "hl_scores_2"
    /\ LET rng == RangeStep(Len(scoring_names_2_sigs), 2)
       IN IF i > Min2(Len(selected_thresh), Len(rng))
          THEN /\ pc' = "hl_proba_2"
               /\ i' = 1
               /\ UNCHANGED <<obs, all_pred_cols_2, err>>
          ELSE LET method == selected_thresh[i][1]
                   selected == selected_thresh[i][2]
                   B_scores == obs[scoring_names_2_sigs[rng[i] + 1]]
                   M_scores == obs[scoring_names_2_sigs[rng[i] + 2]]
                   threshs == get_score_threshs(selected, B_scores, M_scores)
                   cols == Slice(scoring_names_2_sigs, rng[i], rng[i] + 2)
                   curr_val == ScoreLabels2(obs, cols, threshs)
               IN IF ThreshsRaise(selected)
                  THEN /\ err' = "IndexError"
                       /\ pc' = "failed"
                       /\ UNCHANGED <<obs, all_pred_cols_2, i>>
                  ELSE /\ obs' = WithColumn(obs, scores_HL_2sigs(method), curr_val)
                       /\ all_pred_cols_2' = Append(all_pred_cols_2, scores_HL_2sigs(method))
                       /\ i' = i + 1
                       /\ pc' = pc
                       /\ err' = err
    /\ UNCHANGED <<scoring_names_3_sigs, fits, selected_thresh, scoring_names_3_gmm,
                   scoring_names_2_gmm, assignments, all_pred_cols_1, figure, res>>

\* Cell "hard labeling on probabilities, scenario 2"
HardLabelProba2 ==
    /\ pc = "hl_proba_2"
    /\ LET rng == RangeStep(Len(scoring_names_2_gmm), 3)
       IN IF i > Len(rng)
          THEN /\ pc' = "done"
               /\ i' = 1
               /\ UNCHANGED <<obs, all_pred_cols_2>>
          ELSE LET method == rsplit(scoring_names_2_gmm[rng[i] + 1], 3)[1]
                   cols == Slice(scoring_names_2_gmm, rng[i], rng[i] + 3)
                   curr_val == ArgmaxLabels(obs, cols, 3)
               IN /\ obs' = WithColumn(obs, probabilities_HL_2sigs(method), curr_val)
                  /\ all_pred_cols_2' = Append(all_pred_cols_2, probabilities_HL_2sigs(method))
                  /\ i' = i + 1
                  /\ pc' = pc
    /\ UNCHANGED <<scoring_names_3_sigs, fits, selected_thresh, scoring_names_3_gmm,
                   scoring_names_2_gmm, assignments, all_pred_cols_1, figure, res, err>>

(***************************************************************************)
(* Inputs of the labeling pipeline                                         *)
(***************************************************************************)
ANS == <<"ANS">>
Seurat_AG == <<"Seurat", "AG">>

\* the score columns of a list of methods: B, Mono, NK of each method
RECURSIVE ScoreNames(_)
ScoreNames(methods) ==
    IF methods = <<>> THEN <<>>
    ELSE <<Head(methods) \o <<"B">>, Head(methods) \o <<"Mono">>,
           Head(methods) \o <<"NK">> >> \o ScoreNames(Tail(methods))

NoNK(names) == SelectSeq(names, LAMBDA x : ~ContainsNK(x))

\* the column groups a GMM is fitted on
FitKeys(methods) ==
    {Slice(ScoreNames(methods), 3 * (k - 1), 3 * k) : k \in 1..Len(methods)} \cup
    {Slice(NoNK(ScoreNames(methods)), 2 * (k - 1), 2 * k) : k \in 1..Len(methods)}

Rows == 1..NumEntities

\* every entity split between the first two components
P0(rows) ==
    [c \in Components |->
        [e \in rows |-> IF c = 1 THEN ProbTotal - (ProbTotal \div 2)
                         ELSE IF c = 2 THEN ProbTotal \div 2 ELSE 0]]

\* score tables whose rows each favour one signature
OneHotTables(names) ==
    {t \in [Range(names) -> [Rows -> 0..1]] :
        \A e \in Rows : \A k \in 1..(Len(names) \div 3) :
            t[names[3 * k - 2]][e] + t[names[3 * k - 1]][e] + t[names[3 * k]][e] = 1}

\* the bin indices selected by hand in the model
ThreshIndices == {0, 50, 100}

InitCommon ==
    /\ scoring_names_3_gmm = <<>>
    /\ scoring_names_2_gmm = <<>>
    /\ assignments = <<>>
    /\ all_pred_cols_1 = <<>>
    /\ all_pred_cols_2 = <<>>
    /\ figure = <<>>
    /\ res = <<>>
    /\ i = 1
    /\ err = "none"

\* the non-decreasing sequences of length n over the codes in S: tables of
\* n rows up to the order of the rows
RECURSIVE Multisets(_, _)
Multisets(n, S) ==
    IF n = 0 THEN {<<>>}
    ELSE UNION {{Append(t, x) : x \in {y \in S : t = <<>> \/ t[Len(t)] <= y}} :
                   t \in Multisets(n - 1, S)}

\* digit k (from the right, starting at 0) of r in the given base
Digit(r, base, k) == (r \div (base ^ k)) % base

\* the score table of one method whose row e has the scores coded by t[e]
ScoreTable(method, t, width) ==
    [n \in Range(ScoreNames(<<method>>)) |->
        [e \in Rows |->
            IF n = method \o <<"B">> THEN Digit(t[e], MaxScore + 1, width - 1)
            ELSE IF n = method \o <<"Mono">> THEN Digit(t[e], MaxScore + 1, width - 2)
            ELSE IF width = 3 THEN Digit(t[e], MaxScore + 1, 0) ELSE 0]]

\* one method, every score table
InitScores ==
    /\ scoring_names_3_sigs = ScoreNames(<<ANS>>)
    /\ \E t \in Multisets(NumEntities, 0..((MaxScore + 1) ^ 3 - 1)) :
          obs = ScoreTable(ANS, t, 3)
    /\ fits = [k \in FitKeys(<<ANS>>) |-> P0(Rows)]
    /\ selected_thresh = << <<ANS, <<50, 50>> >> >>

\* one method, every table of B and Mono scores, every pair of selected bins
InitThreshs ==
    /\ scoring_names_3_sigs = ScoreNames(<<ANS>>)
    /\ \E t \in Multisets(NumEntities, 0..((MaxScore + 1) ^ 2 - 1)) :
          obs = ScoreTable(ANS, t, 2)
    /\ fits = [k \in FitKeys(<<ANS>>) |-> P0(Rows)]
    /\ \E a \in ThreshIndices, b \in ThreshIndices :
          selected_thresh = << <<ANS, <<a, b>> >> >>

\* a row code r gives the signature the row's scores favour and the row's
\* posteriors of the first two components
RowSig(r) == r % 3
RowP1(r) == Digit(r \div 3, ProbTotal + 1, 0)
RowP2(r) == Digit(r \div 3, ProbTotal + 1, 1)
ProbaRows ==
    {r \in 0..(3 * (ProbTotal + 1) ^ 2 - 1) : RowP1(r) + RowP2(r) <= ProbTotal}

\* one method, every outcome of the GMM fits: each row of the posterior
\* matrix sums to ProbTotal
InitProba ==
    /\ scoring_names_3_sigs = ScoreNames(<<ANS>>)
    /\ \E t \in Multisets(NumEntities, ProbaRows) :
          /\ obs = [n \in Range(ScoreNames(<<ANS>>)) |->
                      [e \in Rows |->
                          IF n = ScoreNames(<<ANS>>)[RowSig(t[e]) + 1] THEN 1 ELSE 0]]
          /\ fits = [k \in FitKeys(<<ANS>>) |->
                       [c \in Components |->
                           [e \in Rows |->
                               IF c = 1 THEN RowP1(t[e])
                               ELSE IF c = 2 THEN RowP2(t[e])
                               ELSE ProbTotal - RowP1(t[e]) - RowP2(t[e])]]]
    /\ selected_thresh = << <<ANS, <<50, 50>> >> >>

\* two methods, every shape of the selected_thresh dict
ThreshLists == {<<50, 50>>, <<0, 50>>, <<50>>}
ThreshDicts ==
    {<<>>} \cup
    {<< <<m, t>> >> : m \in {ANS, Seurat_AG}, t \in ThreshLists} \cup
    {<< <<m[1], t1>>, <<m[2], t2>> >> :
        m \in {<<ANS, Seurat_AG>>, <<Seurat_AG, ANS>>},
        t1 \in ThreshLists, t2 \in ThreshLists}

InitLoop ==
    /\ scoring_names_3_sigs = ScoreNames(<<ANS, Seurat_AG>>)
    /\ obs \in {t \in OneHotTables(ScoreNames(<<ANS, Seurat_AG>>)) :
                  \A n \in DOMAIN t : \A e \in Rows : ContainsNK(n) => t[n][e] = 0}
    /\ fits = [k \in FitKeys(<<ANS, Seurat_AG>>) |-> P0(Rows)]
    /\ selected_thresh \in ThreshDicts

Init ==
    /\ InitCommon
    /\ pc = "gmm3"
    /\ (InitScores \/ InitThreshs \/ InitProba \/ InitLoop)

Next ==
    \/ GmmScenario1
    \/ GmmScenario2
    \/ DropUnused
    \/ HardLabelScores1
    \/ HardLabelProba1
    \/ HardLabelScores2
    \/ HardLabelProba2

Spec == Init /\ [][Next]_vars

(***************************************************************************)
(* Policy A                                                                *)
(***************************************************************************)
\* the method and the value mode a label column is named after
MethodOf(label_col) == SubSeq(label_col, 1, Len(label_col) - 3)
ModeOf(label_col) == label_col[Len(label_col) - 2]

\* the column that holds the value of signature sig for a scenario-1 label column
ValueColumn1(label_col, sig) ==
    IF ModeOf(label_col) = "scores"
    THEN MethodOf(label_col) \o <<sig>>
    ELSE MethodOf(label_col) \o <<sig, "gmm", "3sigs">>

SigPos(sig) == CHOOSE k \in DOMAIN Signatures : Signatures[k] = sig

\* row e of the value columns of label_col has its maximum in two columns
TiedMaximum1(label_col, e) ==
    \E s \in DOMAIN Signatures, t \in DOMAIN Signatures :
        /\ s # t
        /\ obs[ValueColumn1(label_col, Signatures[s])][e]
              = obs[ValueColumn1(label_col, Signatures[t])][e]
        /\ \A u \in DOMAIN Signatures :
              obs[ValueColumn1(label_col, Signatures[u])][e]
                  <= obs[ValueColumn1(label_col, Signatures[s])][e]

ZipCols(k) == Slice(scoring_names_2_sigs, 2 * (k - 1), 2 * k)
ZipThreshs(k) ==
    get_score_threshs(selected_thresh[k][2], obs[ZipCols(k)[1]], obs[ZipCols(k)[2]])

\* the label columns written by that loop, in the order of its iterations
ScoreLabelCols2 == SelectSeq(all_pred_cols_2, LAMBDA n : ModeOf(n) = "scores")

\* the scenario of the design description, scores in units of 0.01:
\* B=[0.9,0.1,0.05,0.8], Mono=[0.1,0.9,0.05,0.75], both thresholds 0.2
ExampleCols == << <<"ANS", "B">>, <<"ANS", "Mono">> >>
ExampleTable ==
    (ExampleCols[1] :> <<90, 10, 5, 80>>) @@ (ExampleCols[2] :> <<10, 90, 5, 75>>)
ExampleThreshs == <<20 * Bins, 20 * Bins>>

\* C2: a row of a scenario-2 score label column holds the rest label iff
\* each of its scores is strictly below the threshold of its signature;
\* every other row, also one with a score equal to its threshold or with
\* only some scores below, holds the Policy A label: the first column with
\* the row maximum.  The literal scenario is labeled [B, Mono, rest, B].
C2_PolicyBScores ==
    /\ \A k \in DOMAIN ScoreLabelCols2 : \A e \in Entities :
          LET label == obs[ScoreLabelCols2[k]][e]
              val(s) == obs[ZipCols(k)[s]][e]
              below(s) == Bins * val(s) < ZipThreshs(k)[s]
          IN /\ (label = RestLabel) <=> (below(1) /\ below(2))
             /\ label # RestLabel =>
                   \/ (label = <<"B">> /\ val(1) >= val(2))
                   \/ (label = <<"Mono">> /\ val(2) > val(1))
    /\ ScoreLabels2(ExampleTable, ExampleCols, ExampleThreshs)
          = << <<"B">>, <<"Mono">>, RestLabel, <<"B">> >>

\* C2 witness: a written score label column with a row labeled rest and a
\* row that keeps its argmax label with one score exactly on its threshold
\* and the other score below
C2_Witness ==
    \E k \in DOMAIN ScoreLabelCols2 : \E e \in Entities, r \in Entities :
        /\ obs[ScoreLabelCols2[k]][r] = RestLabel
        /\ obs[ScoreLabelCols2[k]][e] # RestLabel
        /\ Bins * obs[ZipCols(k)[1]][e] = ZipThreshs(k)[1]
        /\ Bins * obs[ZipCols(k)[2]][e] < ZipThreshs(k)[2]

(***************************************************************************)
(* The signature assignment                                                *)
(***************************************************************************)
RestKey == <<"rest">>
SigItems(d) == SelectSeq(d, LAMBDA kv : kv[1] # RestKey)
RestItems(d) == SelectSeq(d, LAMBDA kv : kv[1] = RestKey)

\* the groups of score columns the two GMM cells pass to the matcher
Groups3 ==
    {Slice(scoring_names_3_sigs, 3 * (k - 1), 3 * k) :
        k \in 1..(Len(scoring_names_3_sigs) \div 3)}
Groups2 ==
    {Slice(scoring_names_2_sigs, 2 * (k - 1), 2 * k) :
        k \in 1..(Len(scoring_names_2_sigs) \div 2)}

\* d maps the signatures of group one-to-one into the components, and, when
\* there is one component more than signatures, 'rest' to the single
\* component no signature is mapped to
IsBijection(d, group) ==
    LET sigs == SigItems(d)
        rest == RestItems(d)
    IN /\ Len(sigs) = Len(group)
       /\ \A k \in DOMAIN group : \E j \in DOMAIN sigs : sigs[j][1] = group[k]
       /\ \A j \in DOMAIN sigs : sigs[j][2] \in Range(store_names_proba)
       /\ \A j \in DOMAIN sigs, k \in DOMAIN sigs : sigs[j][2] = sigs[k][2] => j = k
       /\ Len(group) = NComponents => Len(rest) = 0
       /\ Len(group) + 1 = NComponents =>
             /\ Len(rest) = 1
             /\ Cardinality(rest[1][2]) = 1
             /\ rest[1][2] \subseteq Range(store_names_proba)
             /\ \A j \in DOMAIN sigs : sigs[j][2] \notin rest[1][2]

\* C3: the assignment returned by assign_clusters_to_signatures, with as
\* many components as signatures (scenario 1) or one more (scenario 2), is a
\* bijection between the signatures of the subset, plus 'rest' in scenario
\* 2, and the components.
C3_AssignmentBijection ==
    assignments # <<>> =>
        \E group \in Groups3 \cup Groups2 : IsBijection(assignments, group)

\* C3 witness: an assignment of scenario 2 that maps a signature to another
\* component than the one at its own position and has a 'rest' component
C3_Witness ==
    /\ Len(RestItems(assignments)) = 1
    /\ Len(SigItems(assignments)) = 2
    /\ \E k \in 1..2 : assignments[k][2] # store_names_proba[k]

(***************************************************************************)
(* Policy B on matched probabilities                                       *)
(***************************************************************************)
ProbaLabelCols2 == SelectSeq(all_pred_cols_2, LAMBDA n : ModeOf(n) = "probabilities")

\* the candidates of scenario 2 in column order: the two signatures, then
\* the remaining class
Candidates2 == <<"B", "Mono", RestLabel[1]>>
ValueColumn2(label_col, cand) == MethodOf(label_col) \o <<cand, "gmm", "2sigs">>

\* the posterior column of the component that the last assignment maps to 'rest'
LastRestPosterior ==
    LET group == Slice(scoring_names_2_sigs, Len(scoring_names_2_sigs) - 2,
                       Len(scoring_names_2_sigs))
        c == CHOOSE c \in Components : store_names_proba[c] \in DictGet(assignments, RestKey)
    IN fits[group][c]

\* C4: a scenario-2 probability label is the first of the columns B, Mono,
\* rest that holds the row maximum of the three matched probabilities, so a
\* row is labeled rest exactly when the probability of the rest component
\* exceeds both signature probabilities; the rest column is the posterior of
\* the component assigned to 'rest', and no threshold enters.
C4_PolicyBProbabilities ==
    /\ \A k \in DOMAIN ProbaLabelCols2 : \A e \in Entities :
          LET label_col == ProbaLabelCols2[k]
              label == obs[label_col][e]
              val(c) == obs[ValueColumn2(label_col, Candidates2[c])][e]
              pos == CHOOSE c \in DOMAIN Candidates2 : <<Candidates2[c]>> = label
          IN /\ \E c \in DOMAIN Candidates2 : <<Candidates2[c]>> = label
             /\ \A c \in DOMAIN Candidates2 :
                   /\ val(c) <= val(pos)
                   /\ c < pos => val(c) < val(pos)
             /\ (label = RestLabel) <=> (val(3) > val(1) /\ val(3) > val(2))
    /\ pc \in {"hl_scores_2", "hl_proba_2", "done"} =>
          LET last == scoring_names_2_gmm[Len(scoring_names_2_gmm)]
          IN /\ SubSeq(last, Len(last) - 2, Len(last)) = <<"NK", "gmm", "2sigs">>
             /\ obs[last] = LastRestPosterior

\* C4 witness: a probability label column of scenario 2 with a row where
\* the rest component wins and a row where it ties with the winning
\* signature and the signature is the label
C4_Witness ==
    \E k \in DOMAIN ProbaLabelCols2 : \E e \in Entities, r \in Entities :
        LET label_col == ProbaLabelCols2[k]
            val(c, x) == obs[ValueColumn2(label_col, Candidates2[c])][x]
        IN /\ obs[label_col][r] = RestLabel
           /\ obs[label_col][e] # RestLabel
           /\ \E c \in 1..2 : val(c, e) = val(3, e) /\ val(3 - c, e) < val(3, e)

(***************************************************************************)
(* Failures of the score labeling loop of scenario 2                       *)
(***************************************************************************)
Finished == pc \in {"done", "failed"}

\* the methods of scenario 2, one per group of two score columns
Methods2 ==
    [k \in 1..(Len(scoring_names_2_sigs) \div 2) |->
        rsplit(scoring_names_2_sigs[2 * k - 1], 1)[1]]

HasEntry(method) == \E k \in DOMAIN selected_thresh : selected_thresh[k][1] = method

\* selected_thresh holds a threshold for both signatures of the method
HasThresholds(method) ==
    /\ HasEntry(method)
    /\ ~ThreshsRaise(DictGet(selected_thresh, method))

\* C5: when a method of scenario 2 lacks a threshold for one of its
\* signatures, the run ends in an error (MissingThresholdError in the design
\* description; any exception counts here) and without a score label column
\* for that method: the method is never skipped silently.
C5_MissingThresholdFails ==
    Finished =>
        \A k \in DOMAIN Methods2 :
            ~HasThresholds(Methods2[k]) =>
                /\ err # "none"
                /\ scores_HL_2sigs(Methods2[k]) \notin DOMAIN obs

\* C6: at the end of a run every method of scenario 2 whose own thresholds
\* are present has its score label column, whatever happened to the other
\* methods.
C6_FailureDoesNotBlockOthers ==
    Finished =>
        \A k \in DOMAIN Methods2 :
            HasThresholds(Methods2[k]) => scores_HL_2sigs(Methods2[k]) \in DOMAIN obs

(***************************************************************************)
(* Score histograms and their local minima                                 *)
(***************************************************************************)
\* the bin that np.histogram(values, bins = 100) counts x in, for a column
\* with minimum mn and maximum mx; the last bin is closed on the right and a
\* column of equal values has the range (mn - 0.5, mx + 0.5)
BinOf(mn, mx, x) ==
    IF mn = mx THEN Bins \div 2
    ELSE IF x = mx THEN Bins - 1
    ELSE ((x - mn) * Bins) \div (mx - mn)

\* np.histogram(values, bins = 100, density=True)[0], bins numbered from 0,
\* as counts: the density of a bin is its count divided by the same
\* positive number (rows times bin width) for every bin
Histogram(col) ==
    CHOOSE h \in {[b \in 0..(Bins - 1) |->
                     Cardinality({e \in DOMAIN col : BinOf(mn, mx, col[e]) = b})] :
                  mn \in {ColMin(col)}, mx \in {ColMax(col)}} : h = h

\* ndarray.take(k, mode='clip')
Clip(n, k) == IF k < 0 THEN 0 ELSE IF k > n - 1 THEN n - 1 ELSE k

\* the elements of a set of numbers in increasing order
RECURSIVE Sorted(_)
Sorted(S) == IF S = {} THEN <<>> ELSE <<SetMin(S)>> \o Sorted(S \ {SetMin(S)})

\* a comparison that also accepts bins equal to a neighbour
argrelmin_ties(data, order) ==
    Sorted({j \in DOMAIN data :
              \A shift \in 1..order :
                  /\ data[j] <= data[Clip(Cardinality(DOMAIN data), j + shift)]
                  /\ data[j] <= data[Clip(Cardinality(DOMAIN data), j - shift)]})

\* scipy.signal.argrelmin(data, order)[0]: np.less against the neighbours at
\* distance 1..order on both sides, neighbours beyond an end being replaced
\* by the end element (mode='clip')
argrelmin(data, order) ==
    Sorted({j \in DOMAIN data :
              \A shift \in 1..order :
                  /\ data[j] < data[Clip(Cardinality(DOMAIN data), j + shift)]
                  /\ data[j] < data[Clip(Cardinality(DOMAIN data), j - shift)]})

\* plot_score_distributions: the vertical lines of the figure.  The loop
\* variable e is read after each loop: it is unbound when the first loop
\* ran over no minimum, and still holds the last B minimum when the
\* second loop ran over no minimum.
PlotLines(scores_B, scores_Mono) ==
    CHOOSE f \in {[red |-> x_min_B,
                  red_label |-> IF x_min_B = <<>> THEN <<>>
                                ELSE <<x_min_B[Len(x_min_B)]>>,
                  green |-> IF x_min_B = <<>> THEN <<>> ELSE x_min_Mono,
                  green_label |-> IF x_min_B = <<>> THEN <<>>
                                  ELSE IF x_min_Mono = <<>> THEN <<x_min_B[Len(x_min_B)]>>
                                  ELSE <<x_min_Mono[Len(x_min_Mono)]>>,
                  raised |-> x_min_B = <<>>] :
                 x_min_B \in {argrelmin(Histogram(scores_B), Order)},
                 x_min_Mono \in {argrelmin(Histogram(scores_Mono), Order)}} : TRUE

\* Cell "plot the score distributions": one call per method
PlotDistributions ==
    /\ pc = "plot"
    /\ LET rng == RangeStep(Len(scoring_names_2_sigs), 2)
       IN IF i > Len(rng)
          THEN /\ pc' = "done"
               /\ i' = 1
               /\ UNCHANGED <<figure, err>>
          ELSE \E f \in {PlotLines(obs[scoring_names_2_sigs[rng[i] + 1]],
                                   obs[scoring_names_2_sigs[rng[i] + 2]])} :
                  /\ figure' = [method |-> rsplit(scoring_names_2_sigs[rng[i] + 1], 1)[1],
                                red |-> f.red, red_label |-> f.red_label,
                                green |-> f.green, green_label |-> f.green_label]
                  /\ IF f.raised
                     THEN err' = "UnboundLocalError" /\ pc' = "failed" /\ i' = i
                     ELSE err' = err /\ pc' = pc /\ i' = i + 1
    /\ UNCHANGED <<obs, scoring_names_3_sigs, fits, selected_thresh, scoring_names_3_gmm,
                   scoring_names_2_gmm, assignments, all_pred_cols_1, all_pred_cols_2, res>>

\* a column that holds the score k-1 counts[k] times and the score Bins once,
\* so that the scores 0..Bins-1 fall into the bins of the same number
RECURSIVE Repeat(_, _)
Repeat(x, n) == IF n = 0 THEN <<>> ELSE <<x>> \o Repeat(x, n - 1)

RECURSIVE ColumnOfCounts(_, _)
ColumnOfCounts(counts, k) ==
    IF k = 0 THEN <<Bins>>
    ELSE ColumnOfCounts(counts, k - 1) \o Repeat(k - 1, counts[k])

PlottedBColumns ==
    {ColumnOfCounts(c, HistWindow) : c \in [1..HistWindow -> 0..MaxCount]}

\* the Mono columns of n rows: all scores equal; a valley in bin 1; a first
\* bin lower than the bins next to it
PlottedMonoColumns(n) ==
    {Repeat(0, n)}
    \cup (IF n >= 5 THEN {<<0, 2, 3, 4>> \o Repeat(Bins, n - 4)} ELSE {})
    \cup (IF n >= 8 THEN {<<0, 1, 1, 2, 2, 3, 3>> \o Repeat(Bins, n - 7)} ELSE {})

InitMinima ==
    /\ InitCommon
    /\ pc = "plot"
    /\ scoring_names_3_sigs = ScoreNames(<<ANS>>)
    /\ fits = <<>>
    /\ selected_thresh = <<>>
    /\ \E B \in PlottedBColumns : \E M \in PlottedMonoColumns(Len(B)) :
          obs = (<<"ANS", "B">> :> B) @@ (<<"ANS", "Mono">> :> M)
                   @@ (<<"ANS", "NK">> :> Repeat(0, Len(B)))

NextMinima == PlotDistributions

SpecMinima == InitMinima /\ [][NextMinima]_vars

(***************************************************************************)
(* Minima of the density                                                   *)
(***************************************************************************)
\* the bins strictly below every other bin within Order positions
WindowMinima(hist) ==
    {j \in DOMAIN hist :
        \A k \in DOMAIN hist :
            (k # j /\ k - j <= Order /\ j - k <= Order) => hist[j] < hist[k]}

PlottedB == obs[figure.method \o <<"B">>]
PlottedMono == obs[figure.method \o <<"Mono">>]

\* C7 as stated: the minima found in a histogram are exactly the bins
\* strictly below every other bin within Order positions on each side, the
\* first and the last bin included.
C7_MinimaAreWindowMinima ==
    figure # <<>> =>
        /\ Range(figure.red) = WindowMinima(Histogram(PlottedB))
        /\ figure.red # <<>> =>
              Range(figure.green) = WindowMinima(Histogram(PlottedMono))

\* C7 amended: the minima found are the bins other than the first and the
\* last that are strictly below every other bin within Order positions on
\* each side; the first and the last bin are never reported.
C7_MinimaAreInteriorWindowMinima ==
    figure # <<>> =>
        /\ Range(figure.red) = WindowMinima(Histogram(PlottedB)) \ {0, Bins - 1}
        /\ figure.red # <<>> =>
              Range(figure.green) = WindowMinima(Histogram(PlottedMono)) \ {0, Bins - 1}

\* C7 witness: a figure with a minimum of the B histogram, for a Mono
\* histogram whose first bin is strictly below the three bins next to it
C7_Witness ==
    /\ figure # <<>>
    /\ figure.red # <<>>
    /\ 0 \in WindowMinima(Histogram(PlottedMono))

\* C8: a histogram without a minimum makes the plotting step neither raise
\* an unrelated error nor mark a position that is not one of the minima of
\* the signature being drawn.
C8_EmptyMinimaHandled ==
    figure # <<>> =>
        /\ err # "UnboundLocalError"
        /\ Range(figure.red_label) \subseteq Range(figure.red)
        /\ Range(figure.green_label) \subseteq Range(figure.green)

(***************************************************************************)
(* Matching under a permuted list of signatures                            *)
(***************************************************************************)
\* a row type r encodes a B score, a Mono score and the component the
\* entity belongs to
RowB(r) == r \div ((MaxScore + 1) * NComponents)
RowMono(r) == (r \div NComponents) % (MaxScore + 1)
RowComp(r) == (r % NComponents) + 1
NumRowTypes == (MaxScore + 1) * (MaxScore + 1) * NComponents

MatchRows == 1..(NumEntities + 1)
CanonicalOrder == << <<"ANS", "B">>, <<"ANS", "Mono">> >>

InitMatch ==
    /\ InitCommon
    /\ pc = "gmm2"
    /\ selected_thresh = <<>>
    /\ scoring_names_3_sigs \in
          { << <<"ANS", "B">>, <<"ANS", "Mono">>, <<"ANS", "NK">> >>,
            << <<"ANS", "Mono">>, <<"ANS", "B">>, <<"ANS", "NK">> >> }
    /\ \E t \in Multisets(NumEntities + 1, 0..(NumRowTypes - 1)) :
          /\ obs = (<<"ANS", "B">> :> [e \in MatchRows |-> RowB(t[e])])
                   @@ (<<"ANS", "Mono">> :> [e \in MatchRows |-> RowMono(t[e])])
                   @@ (<<"ANS", "NK">> :> [e \in MatchRows |-> 0])
          /\ fits = [k \in {CanonicalOrder, <<CanonicalOrder[2], CanonicalOrder[1]>>} |->
                       [c \in Components |->
                           [e \in MatchRows |-> IF RowComp(t[e]) = c THEN ProbTotal ELSE 0]]]

NextMatch == GmmScenario2

SpecMatch == InitMatch /\ [][NextMatch]_vars

\* the assignment as a set of (key, value) pairs
Mapping(d) == Range(d)

\* at every step of the greedy matching the strongest remaining correlation
\* belongs to a single (signature, component) pair
RECURSIVE TieFreeFrom(_, _, _)
TieFreeFrom(corr, sigsLeft, compsLeft) ==
    IF sigsLeft = {} \/ compsLeft = {} THEN TRUE
    ELSE \E p \in {BestPair(corr, sigsLeft, compsLeft)} :
            /\ \A q \in sigsLeft \X compsLeft : q # p => CorrLess(corr[q], corr[p])
            /\ TieFreeFrom(corr, sigsLeft \ {p[1]}, compsLeft \ {p[2]})

TieFree ==
    \E corr \in {c \in {CrossCorr(obs, CanonicalOrder, store_names_proba)} : c = c} :
        TieFreeFrom(corr, DOMAIN CanonicalOrder, Components)

gt == obs[<<"celltype.l1">>]

RECURSIVE GCD(_, _)
GCD(a, b) == IF b = 0 THEN a ELSE GCD(b, a % b)

RECURSIVE SumOver(_, _)
SumOver(S, f) ==
    IF S = {} THEN 0
    ELSE LET x == CHOOSE y \in S : TRUE IN f[x] + SumOver(S \ {x}, f)

RECURSIVE ProdOver(_, _)
ProdOver(S, f) ==
    IF S = {} THEN 1
    ELSE LET x == CHOOSE y \in S : TRUE IN f[x] * ProdOver(S \ {x}, f)

\* sklearn f1_score(y_true, y_pred, average='weighted') as the fraction
\* <<numerator, denominator>> in lowest terms: the per-class F1 over the
\* classes present in either column, weighted by the class's support in
\* y_true; a class absent from y_true weighs 0 and raises nothing
f1_score(y_true, y_pred) ==
    LET rows   == DOMAIN y_true
        labels == Range(y_true) \cup Range(y_pred)
        tp == [c \in labels |-> Cardinality({e \in rows : y_true[e] = c /\ y_pred[e] = c})]
        support == [c \in labels |-> Cardinality({e \in rows : y_true[e] = c})]
        den == [c \in labels |->
                  support[c] + Cardinality({e \in rows : y_pred[e] = c})]
        D   == ProdOver(labels, den)
        num == SumOver(labels, [c \in labels |-> support[c] * 2 * tp[c] * (D \div den[c])])
        g   == GCD(num, Cardinality(rows) * D)
    IN <<num \div g, (Cardinality(rows) * D) \div g>>

\* DataFrame(res).pivot(index='method', columns='mode', values='f1-score')
pivot(records) ==
    [k \in {<<records[j].method, records[j].mode>> : j \in DOMAIN records} |->
        records[CHOOSE j \in DOMAIN records : <<records[j].method, records[j].mode>> = k].f1]

\* one pass of an evaluation loop over the label columns pred_cols
Evaluate(pred_cols, next_pc) ==
    IF i > Len(pred_cols)
    THEN IF i = 1
         THEN /\ err' = "KeyError"
              /\ pc' = "failed"
              /\ res' = <<>>
              /\ UNCHANGED i
         ELSE /\ res' = pivot(res)
              /\ pc' = next_pc
              /\ i' = 1
              /\ UNCHANGED err
    ELSE \E splitted \in {rsplit(pred_cols[i], 3)} :
         \E f1sc \in {f1_score(gt, obs[pred_cols[i]])} :
            /\ res' = Append(IF i = 1 THEN <<>> ELSE res,
                             [method |-> splitted[1], mode |-> splitted[2][1],
                              f1 |-> f1sc])
            /\ i' = i + 1
            /\ UNCHANGED <<pc, err>>

\* Cell "performance evaluation, scenario 1"
Evaluate1 ==
    /\ pc = "eval_1"
    /\ Evaluate(all_pred_cols_1, "eval_2")
    /\ UNCHANGED <<obs, scoring_names_3_sigs, fits, selected_thresh,
                   scoring_names_3_gmm, scoring_names_2_gmm, assignments,
                   all_pred_cols_1, all_pred_cols_2, figure>>

\* Cell "performance evaluation, scenario 2"
Evaluate2 ==
    /\ pc = "eval_2"
    /\ Evaluate(all_pred_cols_2, "done")
    /\ UNCHANGED <<obs, scoring_names_3_sigs, fits, selected_thresh,
                   scoring_names_3_gmm, scoring_names_2_gmm, assignments,
                   all_pred_cols_1, all_pred_cols_2, figure>>

Categories == {<<Signatures[k]>> : k \in DOMAIN Signatures}
LabelColumns == [Rows -> Categories]

InitEval ==
    /\ scoring_names_3_gmm = <<>>
    /\ scoring_names_2_gmm = <<>>
    /\ assignments = <<>>
    /\ figure = <<>>
    /\ res = <<>>
    /\ i = 1
    /\ err = "none"
    /\ pc = "eval_1"
    /\ scoring_names_3_sigs = ScoreNames(<<ANS>>)
    /\ fits = <<>>
    /\ selected_thresh = <<>>
    /\ all_pred_cols_1 = <<scores_HL_3sigs(ANS)>>
    /\ all_pred_cols_2 = <<scores_HL_2sigs(ANS)>>
    /\ \E g \in LabelColumns : \E p1 \in LabelColumns : \E p2 \in LabelColumns :
          obs = (<<"celltype.l1">> :> g) @@ (scores_HL_3sigs(ANS) :> p1)
                   @@ (scores_HL_2sigs(ANS) :> p2)

NextEval ==
    \/ Evaluate1
    \/ Evaluate2

SpecEval == InitEval /\ [][NextEval]_vars

\* the label column has a category that the ground truth does not have
LabelSpaceMismatch(pred_col) == ~(Range(obs[pred_col]) \subseteq Range(gt))

\* the label columns whose evaluation has been run
Evaluated ==
    IF pc = "eval_1" THEN SubSeq(all_pred_cols_1, 1, i - 1)
    ELSE IF pc = "eval_2" THEN all_pred_cols_1 \o SubSeq(all_pred_cols_2, 1, i - 1)
    ELSE IF pc = "done" THEN all_pred_cols_1 \o all_pred_cols_2
    ELSE <<>>

\* C10: once the evaluation has been run on a label column holding a
\* category that does not occur in the ground truth, the run has failed
\* with an error instead of recording a score.
C10_EvaluateFailsOnLabelMismatch ==
    \A k \in DOMAIN Evaluated :
        LabelSpaceMismatch(Evaluated[k]) => err # "none"

(***************************************************************************)
(* Pairing of methods and column groups in the scenario-2 score loop       *)
(***************************************************************************)
\* the label column that Policy B gives from the method's own B and Mono
\* score columns and the bins selected for the method, the first for B and
\* the second for Mono
OwnScoreLabels2(method) ==
    LET own_cols == <<method \o <<"B">>, method \o <<"Mono">> >>
    IN ScoreLabels2(obs, own_cols,
                    get_score_threshs(DictGet(selected_thresh, method),
                                      obs[own_cols[1]], obs[own_cols[2]]))

\* C11: every score label column {M}_scores_HL_2sigs written by the
\* scenario-2 loop holds the labels computed from M's own score columns and
\* from the bins selected for M, whatever the order of the score columns
\* and of the entries of selected_thresh.
C11_LabelsFromOwnColumnsAndThresholds ==
    \A k \in DOMAIN ScoreLabelCols2 :
        obs[ScoreLabelCols2[k]] = OwnScoreLabels2(MethodOf(ScoreLabelCols2[k]))

====
